---- MODULE Spec2Model ----
(***************************************************************************)
(* Model of registry-apps-script.js: the web-app entry points doGet and    *)
(* doPost, the store functions getRegistryData, isClaimed and claimItem,   *)
(* and createJsonResponse, over the REGISTRY sheet.                        *)
(*                                                                         *)
(* Cell values and request parameters are JavaScript values, modelled as   *)
(* tagged records; strings are sequences of one-character strings so that  *)
(* toLowerCase and trim are computed character by character.               *)
(***************************************************************************)
EXTENDS Integers, Sequences, FiniteSets, TLC

\* Rows of the sheet grid (row 1 is the header).
MaxRows == 3
\* Largest wall-clock reading new Date() can return.
MaxClock == 1
\* Column F, the claimed flag (lines 130, 136).
ClaimedCol == 6
\* Column G, who claimed the item (line 140).
ClaimedByCol == 7
\* Column H, the claim timestamp (line 144).
TimestampCol == 8
\* Columns of the sheet grid, A..H.
NumCols == TimestampCol
\* The status of a response when createJsonResponse is given none (line 152).
DefaultStatus == 200

-----------------------------------------------------------------------------
(* JavaScript values *)

Str(s) == [kind |-> "string", val |-> s]
Bool(b) == [kind |-> "boolean", val |-> b]
Num(n) == [kind |-> "number", val |-> n]
DateV(t) == [kind |-> "date", val |-> t]
Undefined == [kind |-> "undefined", val |-> 0]
Null == [kind |-> "null", val |-> 0]
EmptyStr == Str(<< >>)

\* ToBoolean: what `!value`, `value || d` and `if (value)` test.
Truthy(v) ==
    CASE v.kind = "string" -> v.val # << >>
      [] v.kind = "boolean" -> v.val
      [] v.kind = "number" -> v.val # 0
      [] v.kind = "date" -> TRUE
      [] v.kind = "undefined" -> FALSE
      [] v.kind = "null" -> FALSE

\* The || operator: `v || d`.
OrElse(v, d) == IF Truthy(v) THEN v ELSE d

Digit(d) == <<"0", "1", "2", "3", "4", "5", "6", "7", "8", "9">>[d + 1]

RECURSIVE Digits(_)
Digits(n) == IF n < 10 THEN <<Digit(n)>> ELSE Digits(n \div 10) \o <<Digit(n % 10)>>

\* value.toString() for the kinds a cell of columns A and F holds.
toString(v) ==
    CASE v.kind = "string" -> v.val
      [] v.kind = "boolean" -> IF v.val THEN <<"t", "r", "u", "e">>
                                        ELSE <<"f", "a", "l", "s", "e">>
      [] v.kind = "number" -> IF v.val < 0 THEN <<"-">> \o Digits(0 - v.val)
                                           ELSE Digits(v.val)

UpperChars == <<"A", "B", "C", "D", "E", "F", "G", "H", "I", "J", "K", "L", "M",
                "N", "O", "P", "Q", "R", "S", "T", "U", "V", "W", "X", "Y", "Z">>
LowerChars == <<"a", "b", "c", "d", "e", "f", "g", "h", "i", "j", "k", "l", "m",
                "n", "o", "p", "q", "r", "s", "t", "u", "v", "w", "x", "y", "z">>

\* The lower-case letter of each upper-case letter.
LowerOf ==
    [c \in {UpperChars[i] : i \in 1..Len(UpperChars)} |->
        LowerChars[CHOOSE i \in 1..Len(UpperChars) : UpperChars[i] = c]]

LowerChar(c) == IF c \in DOMAIN LowerOf THEN LowerOf[c] ELSE c

\* String.prototype.toLowerCase
toLowerCase(s) == [i \in 1..Len(s) |-> LowerChar(s[i])]

WhiteSpace == {" ", "\t", "\n"}

RECURSIVE TrimStart(_)
TrimStart(s) ==
    IF s # << >> /\ Head(s) \in WhiteSpace THEN TrimStart(Tail(s)) ELSE s

RECURSIVE TrimEnd(_)
TrimEnd(s) ==
    IF s # << >> /\ s[Len(s)] \in WhiteSpace
    THEN TrimEnd(SubSeq(s, 1, Len(s) - 1))
    ELSE s

\* String.prototype.trim
trim(s) == TrimEnd(TrimStart(s))

\* Relational comparison of a request value with a number: ToNumber of
\* undefined is NaN, and every comparison with NaN is false.
LessThan(v, n) == v.kind = "number" /\ v.val < n
GreaterThan(v, n) == v.kind = "number" /\ v.val > n

-----------------------------------------------------------------------------
(* isClaimed, lines 107-111 *)

ClaimedWords == { <<"t", "r", "u", "e">>, <<"y", "e", "s">>,
                  <<"c", "l", "a", "i", "m", "e", "d">>, <<"x">> }

\* isClaimed without toLowerCase: the comparison is case-sensitive.
isClaimed_CaseSensitive(value) ==
    IF ~Truthy(value) THEN FALSE
    ELSE LET strValue == trim(toString(value))
         IN strValue \in ClaimedWords

\* isClaimed without trim: white space around the word counts.
isClaimed_NoTrim(value) ==
    IF ~Truthy(value) THEN FALSE
    ELSE LET strValue == toLowerCase(toString(value))
         IN strValue \in ClaimedWords

isClaimed(value) ==
    IF ~Truthy(value) THEN FALSE
    ELSE LET strValue == trim(toLowerCase(toString(value)))
         IN strValue \in ClaimedWords

-----------------------------------------------------------------------------
(* The spreadsheet *)

VARIABLES
    hasSheet,      \* whether getSheetByName(SHEET_NAME) finds the sheet
    sheet,         \* the grid: sheet[r][c] is the value of the cell at row r, column c
    clock,         \* the last wall-clock reading
    req,           \* the request handled last
    out,           \* the TextOutput returned for it
    thrown,        \* whether that output was built in a catch block
    successCount,  \* per row, how many claim requests returned success: true
    raw,           \* the raw flag value handed to isClaimed on its own
    verdict,       \* what isClaimed returned for it
    procs,         \* the claimItem calls running at once: position, parameters, locals
    writers        \* per row, the call that wrote its claimant and its timestamp last

vars == <<hasSheet, sheet, clock, req, out, thrown, successCount, raw, verdict,
          procs, writers>>

SHEET_NAME == "REGISTRY"
SheetNotFound == "Sheet \"REGISTRY\" not found"
InvalidRowIndex == "Invalid row index"
InvalidAction == "Invalid action"
AlreadyClaimed == [success |-> FALSE, message |-> "Item already claimed"]
ClaimedOk == [success |-> TRUE, message |-> "Item claimed successfully"]
\* The message of the SyntaxError JSON.parse throws.
JsonSyntaxError == "Unexpected token in JSON"
\* The message of the exception getRange throws for a row that is no number.
RangeParamError == "The parameters don't match the method signature for getRange"

Rows == 1..MaxRows
Cols == 1..NumCols

Max(S) == CHOOSE x \in S : \A y \in S : y <= x

\* sheet.getLastRow(): the last row that has content, 0 on an empty sheet.
getLastRow(sh) ==
    LET occupied == {r \in Rows : \E c \in Cols : sh[r][c] # EmptyStr}
    IN IF occupied = {} THEN 0 ELSE Max(occupied)

\* sheet.getDataRange().getValues(): the rows from A1 down to the last row with
\* content, one row at least. data[i] of the code is element i + 1 here, and
\* row[j] is element j + 1 of a row. A column the range does not reach reads as
\* undefined in the code and as the empty string here: every use is guarded by
\* ! or || '', which treat the two alike.
getValues(sh) ==
    LET n == IF getLastRow(sh) < 1 THEN 1 ELSE getLastRow(sh)
    IN [r \in 1..n |-> sh[r]]

\* sheet.getRange(row, col).getValue()
getValue(sh, row, col) == sh[row][col]

\* sheet.getRange(row, col).setValue(v)
setValue(sh, row, col, v) == [sh EXCEPT ![row][col] = v]

-----------------------------------------------------------------------------
(* getRegistryData, lines 64-102 *)

Throw(msg) == [threw |-> TRUE, message |-> msg]
Return(v) == [threw |-> FALSE, value |-> v]

\* The id given to the row read as data[i], line 90.
ItemId(i) == i

\* The object pushed at lines 89-98 for data[i] = row.
MakeItem(i, row) ==
    [ id |-> ItemId(i),
      productName |-> OrElse(row[1], EmptyStr),
      manufacturer |-> OrElse(row[2], EmptyStr),
      price |-> OrElse(row[3], EmptyStr),
      productUrl |-> OrElse(row[4], EmptyStr),
      imageUrl |-> OrElse(row[5], EmptyStr),
      claimed |-> isClaimed(row[6]),
      claimedBy |-> OrElse(row[7], EmptyStr) ]

\* The test of line 85: the row is skipped.
IsEmptyRow(row) == ~Truthy(row[1]) \/ trim(toString(row[1])) = << >>

\* The loop of lines 81-99, from index i on.
RECURSIVE ItemsFrom(_, _)
ItemsFrom(data, i) ==
    IF ~(i < Len(data)) THEN << >>
    ELSE LET row == data[i + 1]
         IN IF IsEmptyRow(row) THEN ItemsFrom(data, i + 1)
            ELSE <<MakeItem(i, row)>> \o ItemsFrom(data, i + 1)

getRegistryData(present, sh) ==
    IF ~present THEN Throw(SheetNotFound)
    ELSE LET data == getValues(sh)
         IN IF Len(data) < 2 THEN Return([items |-> << >>])
            ELSE Return([items |-> ItemsFrom(data, 1)])

-----------------------------------------------------------------------------
(* claimItem, lines 116-147 *)

\* WriteClaim with the claimant written to column 6 instead of 7.
WriteClaim_NameInFlagColumn(sh, rowIndex, claimedBy, now) ==
    LET s1 == setValue(sh, rowIndex, ClaimedCol, Str(<<"T", "R", "U", "E">>))
        s2 == IF Truthy(claimedBy)
              THEN setValue(s1, rowIndex, ClaimedCol, claimedBy)
              ELSE s1
    IN setValue(s2, rowIndex, TimestampCol, DateV(now))

\* WriteClaim without the test of line 139: the claimant is always written.
WriteClaim_AlwaysName(sh, rowIndex, claimedBy, now) ==
    LET s1 == setValue(sh, rowIndex, ClaimedCol, Str(<<"T", "R", "U", "E">>))
        s2 == setValue(s1, rowIndex, ClaimedByCol, claimedBy)
    IN setValue(s2, rowIndex, TimestampCol, DateV(now))

\* Lines 136-144: the three writes of a claim.
WriteClaim(sh, rowIndex, claimedBy, now) ==
    LET s1 == setValue(sh, rowIndex, ClaimedCol, Str(<<"T", "R", "U", "E">>))
        s2 == IF Truthy(claimedBy)
              THEN setValue(s1, rowIndex, ClaimedByCol, claimedBy)
              ELSE s1
    IN setValue(s2, rowIndex, TimestampCol, DateV(now))

\* RowOutOfRange with the lower limit off by one: the header row passes.
RowOutOfRange_HeaderPasses(rowIndex, lastRow) ==
    LessThan(rowIndex, 1) \/ GreaterThan(rowIndex, lastRow)

\* Line 125: the row index is rejected.
RowOutOfRange(rowIndex, lastRow) ==
    LessThan(rowIndex, 2) \/ GreaterThan(rowIndex, lastRow)

\* claimItem without the test of lines 131-133: a claimed row is claimed again.
claimItem_NoCheck(present, sh, rowIndex, claimedBy, now) ==
    IF ~present THEN [result |-> Throw(SheetNotFound), sheet |-> sh]
    ELSE IF RowOutOfRange(rowIndex, getLastRow(sh))
    THEN [result |-> Throw(InvalidRowIndex), sheet |-> sh]
    ELSE IF rowIndex.kind # "number"
    THEN [result |-> Throw(RangeParamError), sheet |-> sh]
    ELSE [result |-> Return(ClaimedOk),
          sheet |-> WriteClaim(sh, rowIndex.val, claimedBy, now)]

\* claimItem that flips the flag: a claimed row is set back to FALSE.
claimItem_Toggle(present, sh, rowIndex, claimedBy, now) ==
    IF ~present THEN [result |-> Throw(SheetNotFound), sheet |-> sh]
    ELSE IF RowOutOfRange(rowIndex, getLastRow(sh))
    THEN [result |-> Throw(InvalidRowIndex), sheet |-> sh]
    ELSE IF rowIndex.kind # "number"
    THEN [result |-> Throw(RangeParamError), sheet |-> sh]
    ELSE IF isClaimed(getValue(sh, rowIndex.val, ClaimedCol))
    THEN [result |-> Return(AlreadyClaimed),
          sheet |-> setValue(sh, rowIndex.val, ClaimedCol,
                             Str(<<"F", "A", "L", "S", "E">>))]
    ELSE [result |-> Return(ClaimedOk),
          sheet |-> WriteClaim(sh, rowIndex.val, claimedBy, now)]

\* The result of claimItem and the sheet it leaves; now is what new Date() reads.
claimItem(present, sh, rowIndex, claimedBy, now) ==
    IF ~present THEN [result |-> Throw(SheetNotFound), sheet |-> sh]
    ELSE IF RowOutOfRange(rowIndex, getLastRow(sh))
    THEN [result |-> Throw(InvalidRowIndex), sheet |-> sh]
    ELSE IF rowIndex.kind # "number"
    THEN [result |-> Throw(RangeParamError), sheet |-> sh]
    ELSE IF isClaimed(getValue(sh, rowIndex.val, ClaimedCol))
    THEN [result |-> Return(AlreadyClaimed), sheet |-> sh]
    ELSE [result |-> Return(ClaimedOk),
          sheet |-> WriteClaim(sh, rowIndex.val, claimedBy, now)]

-----------------------------------------------------------------------------
(* createJsonResponse, lines 152-156: the TextOutput holds the data and the
   JSON mime type; statusCode is not used. *)

createJsonResponse(data, statusCode) ==
    [content |-> data, mimeType |-> "JSON"]

\* The status the host answers with for a TextOutput.
ResponseStatus(output) ==
    IF "statusCode" \in DOMAIN output THEN output.statusCode ELSE DefaultStatus

-----------------------------------------------------------------------------
(* Requests *)

claim == <<"c", "l", "a", "i", "m">>
unclaim == <<"u", "n">> \o claim
Alex == <<"A", "l", "e", "x">>
Sam == <<"S", "a", "m">>

\* e.postData.contents: text JSON.parse rejects, or the text of an object with
\* the properties action, rowIndex and claimedBy (undefined when left out).
\* A body whose action is not "claim" is drawn with one rowIndex and one
\* claimedBy: doPost reads neither.
RowIndexes == {Num(n) : n \in 0..(MaxRows + 1)} \cup {Undefined}
ClaimedBys == {Undefined, EmptyStr, Str(Alex)}
Body(a, r, c) == [wellFormed |-> TRUE, action |-> a, rowIndex |-> r, claimedBy |-> c]
Bodies ==
    {[wellFormed |-> FALSE]} \cup
    {Body(a, Num(2), Str(Alex)) : a \in {Str(unclaim), Undefined}} \cup
    {Body(Str(claim), r, c) : r \in RowIndexes, c \in ClaimedBys}

\* JSON.parse(e.postData.contents), line 48.
JSONparse(contents) ==
    IF contents.wellFormed
    THEN Return([action |-> contents.action, rowIndex |-> contents.rowIndex,
                 claimedBy |-> contents.claimedBy])
    ELSE Throw(JsonSyntaxError)

\* doGet whose catch block answers with a fixed text instead of error.message.
doGet_GenericError(present, sh) ==
    LET data == getRegistryData(present, sh)
    IN IF data.threw
       THEN [output |-> createJsonResponse([error |-> "Internal error"], 500),
             caught |-> TRUE]
       ELSE [output |-> createJsonResponse(data.value, DefaultStatus),
             caught |-> FALSE]

\* doGet, lines 34-41: the output, and whether the catch block built it.
doGet(present, sh) ==
    LET data == getRegistryData(present, sh)
    IN IF data.threw
       THEN [output |-> createJsonResponse([error |-> data.message], 500),
             caught |-> TRUE]
       ELSE [output |-> createJsonResponse(data.value, DefaultStatus),
             caught |-> FALSE]

\* doPost without the test of line 50: every parsed body is taken for a claim.
doPost_AnyAction(present, sh, contents, now) ==
    LET parsed == JSONparse(contents)
    IN IF parsed.threw
       THEN [output |-> createJsonResponse([error |-> parsed.message], 500),
             caught |-> TRUE, sheet |-> sh]
       ELSE LET params == parsed.value
                c == claimItem(present, sh, params.rowIndex, params.claimedBy, now)
            IN IF c.result.threw
               THEN [output |-> createJsonResponse([error |-> c.result.message], 500),
                     caught |-> TRUE, sheet |-> c.sheet]
               ELSE [output |-> createJsonResponse(c.result.value, DefaultStatus),
                     caught |-> FALSE, sheet |-> c.sheet]

\* doPost, lines 46-59: the output, whether the catch block built it, and the
\* sheet the request leaves.
doPost(present, sh, contents, now) ==
    LET parsed == JSONparse(contents)
    IN IF parsed.threw
       THEN [output |-> createJsonResponse([error |-> parsed.message], 500),
             caught |-> TRUE, sheet |-> sh]
       ELSE LET params == parsed.value
            IN IF params.action = Str(claim)
               THEN LET c == claimItem(present, sh, params.rowIndex,
                                       params.claimedBy, now)
                    IN IF c.result.threw
                       THEN [output |-> createJsonResponse(
                                            [error |-> c.result.message], 500),
                             caught |-> TRUE, sheet |-> c.sheet]
                       ELSE [output |-> createJsonResponse(c.result.value,
                                                           DefaultStatus),
                             caught |-> FALSE, sheet |-> c.sheet]
               ELSE [output |-> createJsonResponse([error |-> InvalidAction], 400),
                     caught |-> FALSE, sheet |-> sh]

-----------------------------------------------------------------------------
(* Sheets the program can find itself with *)

Mixer == <<"M", "i", "x", "e", "r">>
Brand == <<"K", "A">>

Row(a, b, f, g, h) ==
    [c \in Cols |->
        CASE c = 1 -> a
          [] c \in 2..5 -> b
          [] c = ClaimedCol -> f
          [] c = ClaimedByCol -> g
          [] c = TimestampCol -> h]

BlankRow == Row(EmptyStr, EmptyStr, EmptyStr, EmptyStr, EmptyStr)
HeaderRow ==
    Row(Str(<<"N", "a", "m", "e">>), Str(<<"I", "n", "f", "o">>),
        Str(<<"C", "l", "a", "i", "m", "e", "d">>), EmptyStr, EmptyStr)

\* An unclaimed item: a flag that is no claimed word, a name left in G.
ItemRow == Row(Str(Mixer), Str(Brand), Str(<<"n", "o">>), Str(Sam), EmptyStr)
\* An item claimed by hand, the flag typed as " Yes ".
ClaimedRow ==
    Row(Str(Mixer), EmptyStr, Str(<<" ", "Y", "e", "s", " ">>), Str(Sam), EmptyStr)
\* A row with a blank name, the other columns filled, the flag empty.
NamelessRow == Row(Str(<<" ", "\t">>), Str(Brand), EmptyStr, EmptyStr, EmptyStr)
\* A row whose name cell holds the number 0, claimed with a checkbox.
ZeroNameRow == Row(Num(0), Str(Brand), Bool(TRUE), EmptyStr, DateV(0))

DataRows == {ItemRow, ClaimedRow, NamelessRow, ZeroNameRow, BlankRow}

\* A header and data rows below it (the rows that are no items and not blank
\* are drawn for row 2 alone), or a sheet with no content at all.
InitSheets ==
    {sh \in [Rows -> DataRows \cup {HeaderRow}] :
        /\ sh[1] = HeaderRow
        /\ sh[2] \in DataRows
        /\ \A r \in Rows \ {1, 2} : sh[r] \in {ItemRow, ClaimedRow, BlankRow}}
    \cup {[r \in Rows |-> BlankRow]}

NoRequest == [method |-> "NONE"]
\* No value has been handed to isClaimed on its own, and nothing returned.
NoRaw == [kind |-> "none"]
NoVerdict == [returned |-> FALSE, claimed |-> FALSE]
\* The claimItem calls that run at once, when the host does not serialize them.
Procs == {"p1", "p2"}
\* A call that has not been made.
Idle ==
    [pc |-> "idle", rowIndex |-> 0, claimedBy |-> Undefined,
     currentValue |-> Undefined, stamp |-> Undefined, result |-> [pending |-> TRUE]]
NoProcs == [p \in Procs |-> Idle]
NoWriters == [r \in Rows |-> [name |-> "none", stamp |-> "none"]]
NoOutput == [content |-> [idle |-> TRUE], mimeType |-> "NONE"]

Init ==
    /\ hasSheet \in BOOLEAN
    /\ sheet \in InitSheets
    /\ hasSheet = FALSE => sheet = [r \in Rows |-> BlankRow]
    /\ clock = 0
    /\ req = NoRequest
    /\ out = NoOutput
    /\ thrown = FALSE
    /\ successCount = [r \in Rows |-> 0]
    /\ raw = NoRaw
    /\ verdict = NoVerdict
    /\ procs = NoProcs
    /\ writers = NoWriters

\* A listing that writes the normalized flag back to every data row.
Get_WritesFlagsBack ==
    LET r == doGet(hasSheet, sheet)
    IN /\ req' = [method |-> "GET"]
       /\ out' = r.output
       /\ thrown' = r.caught
       /\ sheet' = [n \in Rows |->
                     IF n >= 2 /\ n <= getLastRow(sheet)
                     THEN [sheet[n] EXCEPT ![ClaimedCol] = Bool(isClaimed(@))]
                     ELSE sheet[n]]
       /\ UNCHANGED <<hasSheet, clock, successCount, raw, verdict, procs, writers>>

\* A GET request is served.
Get ==
    LET r == doGet(hasSheet, sheet)
    IN /\ req' = [method |-> "GET"]
       /\ out' = r.output
       /\ thrown' = r.caught
       /\ UNCHANGED <<hasSheet, sheet, clock, successCount, raw, verdict, procs, writers>>

\* The rows a response counts as claimed: the row of a claim that succeeded.
CountSuccess(count, contents, output) ==
    IF output.content = ClaimedOk
    THEN [count EXCEPT ![contents.rowIndex.val] = @ + 1]
    ELSE count

\* The state a POST request leaves, given what doPost returned.
Served(contents, r, now) ==
    /\ req' = [method |-> "POST", contents |-> contents]
    /\ out' = r.output
    /\ thrown' = r.caught
    /\ sheet' = r.sheet
    /\ clock' = now
    /\ successCount' = CountSuccess(successCount, contents, r.output)
    /\ UNCHANGED <<hasSheet, raw, verdict, procs, writers>>

\* A POST request with some body is served. new Date() is read at line 144
\* alone, by a claim that writes its row: it reads the last reading or a later
\* one; a request that writes nothing reads no clock.
Post ==
    \E contents \in Bodies :
        LET r == doPost(hasSheet, sheet, contents, clock)
        IN IF r.sheet = sheet
           THEN Served(contents, r, clock)
           ELSE \E now \in clock..MaxClock :
                    Served(contents, doPost(hasSheet, sheet, contents, now), now)

Next == Get \/ Post

Spec == Init /\ [][Next]_vars

-----------------------------------------------------------------------------
(* isClaimed on its own: raw flag values are drawn and normalized *)

\* Most white-space characters typed before, and after, a flag word.
MaxPad == 1

\* Sequences over S of length n at most.
RECURSIVE SeqsUpTo(_, _)
SeqsUpTo(S, n) ==
    IF n = 0 THEN {<< >>}
    ELSE LET shorter == SeqsUpTo(S, n - 1)
         IN shorter \cup {<<c>> \o t : c \in S, t \in {u \in shorter : Len(u) = n - 1}}

Pads == SeqsUpTo({" ", "\t"}, MaxPad)

\* The upper-case letter of each lower-case letter.
UpperOf ==
    [c \in {LowerChars[i] : i \in 1..Len(LowerChars)} |->
        UpperChars[CHOOSE i \in 1..Len(LowerChars) : LowerChars[i] = c]]

UpperChar(c) == IF c \in DOMAIN UpperOf THEN UpperOf[c] ELSE c

\* The word w typed in lower case, in upper case, or capitalised.
Cased(w, casing) ==
    CASE casing = "lower" -> w
      [] casing = "upper" -> [i \in 1..Len(w) |-> UpperChar(w[i])]
      [] casing = "capital" -> [i \in 1..Len(w) |-> IF i = 1 THEN UpperChar(w[i]) ELSE w[i]]

\* Words that are no claimed word: the empty word, other answers, claimed
\* words cut short, lengthened or split by a blank.
OtherWords ==
    { << >>, <<"n", "o">>, <<"f", "a", "l", "s", "e">>, <<"m", "a", "y", "b", "e">>,
      <<"t", "r", "u">>, <<"y", "e", "s", "s">>, <<"y", " ", "e", "s">>,
      <<"x", "x">>, <<"c", "l", "a", "i", "m">>, <<"1">> }

\* A raw value typed as text: a word in some casing between two pads.
TypedValues ==
    [kind : {"typed"}, word : ClaimedWords \cup OtherWords,
     casing : {"lower", "upper", "capital"}, lead : Pads, trail : Pads]

\* A raw value that is no text.
PlainValues == {[kind |-> "plain", value |-> v] : v \in {Null, Undefined, Bool(TRUE), Bool(FALSE), Num(0), Num(1)}}

\* The JavaScript value a drawn raw value stands for.
ValueOf(r) ==
    IF r.kind = "typed" THEN Str(r.lead \o Cased(r.word, r.casing) \o r.trail)
    ELSE r.value

\* isClaimed is applied to the drawn value.
Normalize ==
    /\ ~verdict.returned
    /\ verdict' = [returned |-> TRUE, claimed |-> isClaimed(ValueOf(raw))]
    /\ UNCHANGED <<hasSheet, sheet, clock, req, out, thrown, successCount, raw,
                   procs, writers>>

NormInit ==
    /\ hasSheet = FALSE
    /\ sheet = [r \in Rows |-> BlankRow]
    /\ clock = 0
    /\ req = NoRequest
    /\ out = NoOutput
    /\ thrown = FALSE
    /\ successCount = [r \in Rows |-> 0]
    /\ raw \in TypedValues \cup PlainValues
    /\ verdict = NoVerdict
    /\ procs = NoProcs
    /\ writers = NoWriters

NormNext == Normalize

SpecNorm == NormInit /\ [][NormNext]_vars

-----------------------------------------------------------------------------
(* Vocabulary of the properties *)

\* q is a write request whose body parses and whose action is "claim".
IsClaimRequest(q) ==
    /\ q.method = "POST"
    /\ q.contents.wellFormed
    /\ q.contents.action = Str(claim)

\* q is a claim request whose rowIndex is the integer n.
ClaimsRow(q, n) ==
    /\ IsClaimRequest(q)
    /\ q.contents.rowIndex = Num(n)

\* Row n is a data row of the sheet sh: 2 <= n <= last occupied row.
InRange(sh, n) == 2 <= n /\ n <= getLastRow(sh)

RowNumbers == -1..(MaxRows + 1)

\* C1: a row whose flag cell normalizes to claimed keeps a flag cell that
\* normalizes to claimed, whatever request is served.
C1_ClaimedIsMonotonic ==
    [][\A r \in Rows :
         isClaimed(sheet[r][ClaimedCol]) => isClaimed(sheet'[r][ClaimedCol])]_vars

\* A row claimed through a request is claimed again, and is still claimed.
C1_Witness ==
    \E r \in Rows :
        /\ successCount[r] = 1
        /\ ClaimsRow(req, r)
        /\ out.content = AlreadyClaimed
        /\ isClaimed(sheet[r][ClaimedCol])

\* C2: no row is ever claimed with success twice: an in-range claim on an
\* unclaimed row succeeds, and every claim on a row after its successful claim
\* returns "Item already claimed" and counts no further success.
C2_AtMostOneSuccess ==
    [][\A r \in Rows :
         /\ successCount'[r] <= 1
         /\ (hasSheet /\ ClaimsRow(req', r) /\ InRange(sheet, r)
               /\ ~isClaimed(sheet[r][ClaimedCol]))
              => (out'.content = ClaimedOk /\ successCount'[r] = 1)
         /\ (ClaimsRow(req', r) /\ successCount[r] >= 1)
              => (out'.content = AlreadyClaimed /\ successCount' = successCount)]_vars

\* A second claim on a row claimed once has been rejected.
C2_Witness ==
    \E r \in Rows :
        /\ successCount[r] = 1
        /\ ClaimsRow(req, r)
        /\ req.contents.claimedBy = Str(Alex)
        /\ out.content = AlreadyClaimed
        /\ ~thrown

\* C3: a claim on a data row whose flag normalizes to claimed returns
\* {success: false, message: "Item already claimed"} outside the catch block
\* and changes no cell of the sheet.
C3_AlreadyClaimedChangesNothing ==
    [][\A r \in Rows :
         (hasSheet /\ ClaimsRow(req', r) /\ InRange(sheet, r)
            /\ isClaimed(sheet[r][ClaimedCol]))
           => (out'.content = AlreadyClaimed /\ ~thrown' /\ sheet' = sheet)]_vars

\* A row claimed by hand for Sam is claimed for Alex: rejected, Sam stays.
C3_Witness ==
    \E r \in Rows :
        /\ successCount[r] = 0
        /\ ClaimsRow(req, r)
        /\ req.contents.claimedBy = Str(Alex)
        /\ out.content = AlreadyClaimed
        /\ sheet[r][ClaimedByCol] = Str(Sam)
        /\ sheet[r][TimestampCol] = EmptyStr

\* The rows a listing shows, in row order: the data rows from r on that the
\* test of line 85 does not skip.
RECURSIVE ListedRowsFrom(_, _)
ListedRowsFrom(sh, r) ==
    IF r > getLastRow(sh) THEN << >>
    ELSE (IF IsEmptyRow(sh[r]) THEN << >> ELSE <<r>>) \o ListedRowsFrom(sh, r + 1)

\* The last request was a listing that returned items.
Listed == req.method = "GET" /\ ~thrown

\* C4: the id of every listed item is the number of the sheet row it was read
\* from.
C4_IdIsRowNumber ==
    Listed =>
        LET items == out.content.items
            rows == ListedRowsFrom(sheet, 2)
        IN /\ Len(items) = Len(rows)
           /\ \A k \in 1..Len(items) : items[k].id = rows[k]

\* C5: a claim whose integer rowIndex is below 2 or above the last occupied
\* row of the sheet answers {error: "Invalid row index"} and changes no cell.
C5_OutOfRangeRejected ==
    [][\A n \in RowNumbers :
         (hasSheet /\ ClaimsRow(req', n) /\ ~InRange(sheet, n))
           => (out'.content = [error |-> InvalidRowIndex] /\ sheet' = sheet)]_vars

\* The header row, whose flag cell reads "Claimed", was addressed and refused.
C5_Witness ==
    /\ hasSheet
    /\ ClaimsRow(req, 1)
    /\ sheet[1] = HeaderRow
    /\ out.content = [error |-> InvalidRowIndex]

\* C6: a claim with a non-empty claimedBy on an in-range row whose flag does
\* not normalize to claimed returns success, leaves the flag claimed, the
\* claimant cell equal to claimedBy and the timestamp cell stamped, and changes
\* no other row and no cell of columns A-E.
C6_ClaimWritesRow ==
    [][\A r \in Rows :
         (hasSheet /\ ClaimsRow(req', r) /\ InRange(sheet, r)
            /\ ~isClaimed(sheet[r][ClaimedCol])
            /\ Truthy(req'.contents.claimedBy))
           => /\ out'.content = ClaimedOk
              /\ isClaimed(sheet'[r][ClaimedCol])
              /\ sheet'[r][ClaimedByCol] = req'.contents.claimedBy
              /\ sheet'[r][TimestampCol] = DateV(clock')
              /\ \A q \in Rows, c \in Cols :
                    (q # r \/ c < ClaimedCol) => sheet'[q][c] = sheet[q][c]]_vars

\* Alex has claimed a row that carried Sam's name.
C6_Witness ==
    \E r \in Rows :
        /\ ClaimsRow(req, r)
        /\ out.content = ClaimedOk
        /\ sheet[r][ClaimedByCol] = Str(Alex)
        /\ sheet[r][1] = Str(Mixer)
        /\ sheet[r][TimestampCol].kind = "date"

\* C7: a claim that succeeds with claimedBy absent or empty leaves the claimant
\* cell as it was, sets the flag and the timestamp, and returns success.
C7_NoNameLeavesClaimant ==
    [][\A r \in Rows :
         (hasSheet /\ ClaimsRow(req', r) /\ InRange(sheet, r)
            /\ ~isClaimed(sheet[r][ClaimedCol])
            /\ req'.contents.claimedBy \in {Undefined, EmptyStr})
           => /\ out'.content = ClaimedOk
              /\ sheet'[r][ClaimedByCol] = sheet[r][ClaimedByCol]
              /\ isClaimed(sheet'[r][ClaimedCol])
              /\ sheet'[r][TimestampCol] = DateV(clock')]_vars

\* A row carrying Sam's name was claimed with the empty name: Sam stays.
C7_Witness ==
    \E r \in Rows :
        /\ ClaimsRow(req, r)
        /\ req.contents.claimedBy = EmptyStr
        /\ out.content = ClaimedOk
        /\ sheet[r][ClaimedByCol] = Str(Sam)
        /\ sheet[r][TimestampCol].kind = "date"

\* C8: a write request whose body does not parse answers {error: <message>},
\* one whose action is not "claim" answers {error: "Invalid action"}, and
\* neither changes a cell.
C8_BadBodyChangesNothing ==
    [][(req'.method = "POST" /\ ~IsClaimRequest(req'))
         => /\ sheet' = sheet
            /\ IF req'.contents.wellFormed
               THEN out'.content = [error |-> InvalidAction]
               ELSE DOMAIN out'.content = {"error"}]_vars

\* A body with action "unclaim" addressed an unclaimed item and was refused.
C8_Witness ==
    /\ hasSheet
    /\ req.method = "POST"
    /\ req.contents.wellFormed
    /\ req.contents.action = Str(unclaim)
    /\ InRange(sheet, req.contents.rowIndex.val)
    /\ ~isClaimed(sheet[req.contents.rowIndex.val][ClaimedCol])
    /\ out.content = [error |-> InvalidAction]

\* The value v, as text, is not empty after trimming.
NonEmptyAfterTrim(v) == trim(toString(v)) # << >>

\* The data rows from r on whose first column is non-empty after trimming.
RECURSIVE NamedRowsFrom(_, _)
NamedRowsFrom(sh, r) ==
    IF r > getLastRow(sh) THEN << >>
    ELSE (IF NonEmptyAfterTrim(sh[r][1]) THEN <<r>> ELSE << >>)
            \o NamedRowsFrom(sh, r + 1)

\* C9: the listed items are the rows from row 2 on whose first column is
\* non-empty after trimming, one item each, in row order.
C9_ListsNamedRows ==
    Listed =>
        LET items == out.content.items
            rows == NamedRowsFrom(sheet, 2)
        IN /\ Len(items) = Len(rows)
           /\ \A k \in 1..Len(items) :
                 items[k].productName = sheet[rows[k]][1]

\* C10: a response built in a catch block carries a failure status, the
\* "Invalid action" response a client-error status, every other a success
\* status.
C10_StatusTellsOutcome ==
    out # NoOutput =>
        ResponseStatus(out) =
            IF thrown THEN 500
            ELSE IF out.content = [error |-> InvalidAction] THEN 400
            ELSE 200

-----------------------------------------------------------------------------
(* claimItem, lines 116-147, when calls are not serialized: every call of the
   sheet (getLastRow, getValue, setValue) is a step of its own, and the steps
   of two calls interleave. *)

\* The names the racing calls carry.
RaceNames == {Str(Alex), Str(Sam), Undefined}

\* A sheet with a header and items below it, claimed or not.
RaceSheets ==
    {sh \in [Rows -> {HeaderRow, ItemRow, ClaimedRow}] :
        /\ sh[1] = HeaderRow
        /\ \A r \in Rows \ {1} : sh[r] # HeaderRow}

\* A call entered with claimItem(rowIndex, claimedBy).
Called(rowIndex, claimedBy) ==
    [pc |-> "validate", rowIndex |-> rowIndex, claimedBy |-> claimedBy,
     currentValue |-> Undefined, stamp |-> Undefined, result |-> [pending |-> TRUE]]

RaceInit ==
    /\ hasSheet = TRUE
    /\ sheet \in RaceSheets
    /\ clock = 0
    /\ req = NoRequest
    /\ out = NoOutput
    /\ thrown = FALSE
    /\ successCount = [r \in Rows |-> 0]
    /\ raw = NoRaw
    /\ verdict = NoVerdict
    /\ procs \in [Procs -> {Called(r, c) : r \in 1..MaxRows, c \in RaceNames}]
    /\ writers = NoWriters

RaceFrame == UNCHANGED <<hasSheet, req, out, thrown, successCount, raw, verdict>>

\* Lines 124-127: the row index is validated against getLastRow().
RaceValidate(p) ==
    /\ procs[p].pc = "validate"
    /\ procs' = [procs EXCEPT ![p] =
            IF RowOutOfRange(Num(procs[p].rowIndex), getLastRow(sheet))
            THEN [@ EXCEPT !.pc = "done", !.result = Throw(InvalidRowIndex)]
            ELSE [@ EXCEPT !.pc = "read"]]
    /\ UNCHANGED <<sheet, clock, writers>>
    /\ RaceFrame

\* Lines 130-133: the flag is read and tested.
RaceRead(p) ==
    /\ procs[p].pc = "read"
    /\ LET currentValue == getValue(sheet, procs[p].rowIndex, ClaimedCol)
       IN procs' = [procs EXCEPT ![p] =
            IF isClaimed(currentValue)
            THEN [@ EXCEPT !.pc = "done", !.currentValue = currentValue,
                           !.result = Return(AlreadyClaimed)]
            ELSE [@ EXCEPT !.pc = "writeFlag", !.currentValue = currentValue]]
    /\ UNCHANGED <<sheet, clock, writers>>
    /\ RaceFrame

\* RaceWriteFlag that reads the flag again and gives up on a claimed row.
RaceWriteFlag_ReadsAgain(p) ==
    /\ procs[p].pc = "writeFlag"
    /\ IF isClaimed(getValue(sheet, procs[p].rowIndex, ClaimedCol))
       THEN /\ procs' = [procs EXCEPT ![p].pc = "done",
                                      ![p].result = Return(AlreadyClaimed)]
            /\ sheet' = sheet
       ELSE /\ sheet' = setValue(sheet, procs[p].rowIndex, ClaimedCol,
                                 Str(<<"T", "R", "U", "E">>))
            /\ procs' = [procs EXCEPT ![p].pc = "writeName"]
    /\ UNCHANGED <<clock, writers>>
    /\ RaceFrame

\* Line 136: the flag is written.
RaceWriteFlag(p) ==
    /\ procs[p].pc = "writeFlag"
    /\ sheet' = setValue(sheet, procs[p].rowIndex, ClaimedCol,
                         Str(<<"T", "R", "U", "E">>))
    /\ procs' = [procs EXCEPT ![p].pc = "writeName"]
    /\ UNCHANGED <<clock, writers>>
    /\ RaceFrame

\* Lines 139-141: the claimant is written, when one was given.
RaceWriteName(p) ==
    /\ procs[p].pc = "writeName"
    /\ IF Truthy(procs[p].claimedBy)
       THEN /\ sheet' = setValue(sheet, procs[p].rowIndex, ClaimedByCol,
                                 procs[p].claimedBy)
            /\ writers' = [writers EXCEPT ![procs[p].rowIndex].name = p]
       ELSE UNCHANGED <<sheet, writers>>
    /\ procs' = [procs EXCEPT ![p].pc = "stamp"]
    /\ UNCHANGED clock
    /\ RaceFrame

\* Lines 144-146: the timestamp is written and the call returns success.
RaceStamp(p) ==
    /\ procs[p].pc = "stamp"
    /\ \E now \in clock..MaxClock :
        /\ sheet' = setValue(sheet, procs[p].rowIndex, TimestampCol, DateV(now))
        /\ clock' = now
        /\ procs' = [procs EXCEPT ![p].pc = "done", ![p].stamp = DateV(now),
                                  ![p].result = Return(ClaimedOk)]
    /\ writers' = [writers EXCEPT ![procs[p].rowIndex].stamp = p]
    /\ RaceFrame

RaceNext ==
    \E p \in Procs :
        \/ RaceValidate(p)
        \/ RaceRead(p)
        \/ RaceWriteFlag(p)
        \/ RaceWriteName(p)
        \/ RaceStamp(p)

SpecRace == RaceInit /\ [][RaceNext]_vars

\* The call p has read the flag of its row and found it unclaimed.
ReadUnclaimed(p) ==
    /\ procs[p].currentValue # Undefined
    /\ ~isClaimed(procs[p].currentValue)

\* C13: without serialization, two calls on one row that both read the flag
\* as unclaimed both return success, and the row ends with the claimant and
\* the timestamp of whichever call wrote them last.
C13_BothSucceedLastWriterWins ==
    \A p \in Procs, q \in Procs :
        (/\ p # q
         /\ procs[p].rowIndex = procs[q].rowIndex
         /\ procs[p].pc = "done" /\ procs[q].pc = "done"
         /\ ReadUnclaimed(p) /\ ReadUnclaimed(q))
        => LET r == procs[p].rowIndex
           IN /\ procs[p].result = Return(ClaimedOk)
              /\ procs[q].result = Return(ClaimedOk)
              /\ isClaimed(sheet[r][ClaimedCol])
              /\ writers[r].stamp \in {p, q}
              /\ sheet[r][TimestampCol] = procs[writers[r].stamp].stamp
              /\ writers[r].name \in Procs
                    => sheet[r][ClaimedByCol] = procs[writers[r].name].claimedBy

\* Both calls claimed the same row with success; Alex's name and the earlier
\* timestamp were overwritten by the call for Sam.
C13_Witness ==
    /\ procs["p1"].rowIndex = procs["p2"].rowIndex
    /\ procs["p1"].result = Return(ClaimedOk)
    /\ procs["p2"].result = Return(ClaimedOk)
    /\ ReadUnclaimed("p1") /\ ReadUnclaimed("p2")
    /\ procs["p1"].claimedBy = Str(Alex)
    /\ procs["p2"].claimedBy = Str(Sam)
    /\ procs["p1"].stamp = DateV(0)
    /\ procs["p2"].stamp = DateV(1)
    /\ sheet[procs["p1"].rowIndex][ClaimedByCol] = Str(Sam)
    /\ sheet[procs["p1"].rowIndex][TimestampCol] = DateV(1)

\* C11: isClaimed returns true exactly for a text that is one of the words
\* true, yes, claimed, x in any casing between white space, and for the
\* boolean true (whose text is "true"); it returns false for null, undefined,
\* false, 0, the empty text and every other text.
C11_NormalizationIsExact ==
    verdict.returned =>
        (verdict.claimed <=>
            \/ raw.kind = "typed" /\ raw.word \in ClaimedWords
            \/ raw.kind = "plain" /\ raw.value = Bool(TRUE))

\* " TRUE\t" has been normalized to claimed.
C11_Witness ==
    /\ verdict.returned
    /\ verdict.claimed
    /\ raw.kind = "typed"
    /\ raw.word = <<"t", "r", "u", "e">>
    /\ raw.casing = "upper"
    /\ raw.lead = <<" ">>
    /\ raw.trail = <<"\t">>

\* The text v is empty or white space only.
IsBlankName(v) == v.kind = "string" /\ trim(v.val) = << >>

\* C12: a claim addressing a data row whose first column is empty or white
\* space only does not return success and does not change the flag, claimant
\* or timestamp cell of that row.
C12_BlankRowNotClaimable ==
    [][\A r \in Rows :
         (hasSheet /\ ClaimsRow(req', r) /\ r >= 2 /\ IsBlankName(sheet[r][1]))
           => /\ out'.content # ClaimedOk
              /\ \A c \in {ClaimedCol, ClaimedByCol, TimestampCol} :
                    sheet'[r][c] = sheet[r][c]]_vars

\* The messages of the errors a request can throw.
ThrownMessages == {SheetNotFound, InvalidRowIndex, JsonSyntaxError, RangeParamError}

\* The request q makes getRegistryData or claimItem look for the sheet.
NeedsSheet(q) == q.method = "GET" \/ IsClaimRequest(q)

\* C14: every request served ends with one JSON output holding {items},
\* {success, message} or {error}; a missing sheet, a row index out of range
\* and a body that does not parse each end in the catch block with {error}
\* carrying the thrown message, and every output of a catch block is an
\* {error} with a thrown message.
C14_RouterCatchesAll ==
    req # NoRequest =>
        /\ out.mimeType = "JSON"
        /\ DOMAIN out.content \in {{"items"}, {"success", "message"}, {"error"}}
        /\ thrown => (DOMAIN out.content = {"error"}
                        /\ out.content.error \in ThrownMessages)
        /\ (NeedsSheet(req) /\ ~hasSheet)
              => (thrown /\ out.content = [error |-> SheetNotFound])
        /\ (req.method = "POST" /\ ~req.contents.wellFormed)
              => (thrown /\ out.content = [error |-> JsonSyntaxError])
        /\ \A n \in RowNumbers :
              (hasSheet /\ ClaimsRow(req, n) /\ ~InRange(sheet, n))
                => (thrown /\ out.content = [error |-> InvalidRowIndex])

\* A listing found no sheet: the catch block answered with the thrown message.
C14_Witness ==
    /\ ~hasSheet
    /\ req.method = "GET"
    /\ thrown
    /\ out = [content |-> [error |-> SheetNotFound], mimeType |-> "JSON"]

\* The items a listing of the sheet sh returns.
ItemsOf(sh) == getRegistryData(TRUE, sh).value.items

\* C15: a claim whose rowIndex is the id of a listed unclaimed item returns
\* success, and the next listing shows the item at the same place with the
\* same id and productName, claimed, with the submitted name, and every other
\* item's claimed value as before.
C15_ClaimByListedId ==
    [][\A k \in 1..Len(ItemsOf(sheet)) :
         (/\ hasSheet
          /\ ~ItemsOf(sheet)[k].claimed
          /\ ClaimsRow(req', ItemsOf(sheet)[k].id)
          /\ Truthy(req'.contents.claimedBy))
         => /\ out'.content = ClaimedOk
            /\ Len(ItemsOf(sheet')) = Len(ItemsOf(sheet))
            /\ ItemsOf(sheet')[k].id = ItemsOf(sheet)[k].id
            /\ ItemsOf(sheet')[k].productName = ItemsOf(sheet)[k].productName
            /\ ItemsOf(sheet')[k].claimed
            /\ ItemsOf(sheet')[k].claimedBy = req'.contents.claimedBy
            /\ \A j \in 1..Len(ItemsOf(sheet)) :
                  j # k => ItemsOf(sheet')[j].claimed = ItemsOf(sheet)[j].claimed]_vars

\* C16: a claim whose rowIndex is left out or is no number fails with
\* "Invalid row index" and changes no cell.
C16_NonNumberRowRejected ==
    [][(hasSheet /\ IsClaimRequest(req') /\ req'.contents.rowIndex.kind # "number")
         => (out'.content = [error |-> InvalidRowIndex] /\ sheet' = sheet)]_vars

\* C17: a listing changes no cell, whether it returns items or fails, and a
\* listing that follows a listing returns the same output.
C17_ListingIsReadOnly ==
    [][req'.method = "GET"
         => (sheet' = sheet /\ (req.method = "GET" => out' = out))]_vars

\* A listing after a successful claim shows the claimed item.
C17_Witness ==
    /\ Listed
    /\ \E r \in Rows : successCount[r] = 1
    /\ \E k \in 1..Len(out.content.items) :
          /\ out.content.items[k].claimed
          /\ out.content.items[k].claimedBy = Str(Alex)

====
